---- MODULE Spec2Model ----
(***************************************************************************)
(* A model of app.py: the Streamlit grade-distribution page.  One script   *)
(* run of the page is the sequence read -> editor -> export -> chart; a     *)
(* user interaction (an edit in the data editor, another choice in the     *)
(* select box) starts the next script run.                                 *)
(*                                                                         *)
(* A worksheet is modelled as openpyxl keeps it: a dictionary from         *)
(* <<row, column>> to a cell, a cell being a value and a style reference.  *)
(* A DataFrame is modelled column-major, as pandas keeps it.               *)
(***************************************************************************)
EXTENDS Integers, Sequences, FiniteSets, TLC

VARIABLES
    pc,             \* where the page is: welcome, read, editor, export, chart, done
    uploaded_file,  \* the uploaded file object: [content, pos], or NoFile
    editor,         \* the data editor's widget state: the edited table, or Fresh
    selected,       \* the select box's widget state: a column name, or Fresh
    n_edits,        \* number of user interactions so far (bounded by MaxEdits)
    df_original,    \* line 147
    score_cols,     \* line 151
    target_col,     \* line 167
    df_edited,      \* line 179
    final_buffer,   \* line 188
    chart,          \* what col2 shows: the chart and the metrics, or the warning
    df_demo,        \* line 266
    message,        \* st.error shown by this script run, or "" for none
    orig,           \* history: the sheet the user uploaded
    first           \* history: table and output of the first export of the upload

vars == <<pc, uploaded_file, editor, selected, n_edits, df_original, score_cols,
          target_col, df_edited, final_buffer, chart, df_demo, message, orig, first>>

----------------------------------------------------------------------------
(* Bounds of the model *)

\* columns of an uploaded sheet
MaxCols == 3
\* data rows of an uploaded sheet
MaxDataRows == 2
\* user interactions after an upload
MaxEdits == 2
\* length of a score sample in the statistics specification
MaxSample == 4

----------------------------------------------------------------------------
(* Cell values: a number, a text (a sequence of tokens) or missing *)

None == [k |-> "none"]
Num(n) == [k |-> "num", n |-> n]
Str(s) == [k |-> "str", s |-> s]

Null == [k |-> "null"]
NoFile == [k |-> "nofile"]
Fresh == [k |-> "fresh"]

Max(S) == CHOOSE x \in S : \A y \in S : y <= x
Min(S) == CHOOSE x \in S : \A y \in S : x <= y

----------------------------------------------------------------------------
(* The worksheet (openpyxl), as update_excel_formatting uses it *)

\* a cell openpyxl creates on first access: no value, the default style
DefaultStyle == <<0, 0>>
NewCell == [value |-> None, style |-> DefaultStyle]

\* ws.max_row: the highest row that holds a cell; 1 for an empty sheet
max_row(ws) ==
    IF DOMAIN ws = {} THEN 1 ELSE Max({p[1] : p \in DOMAIN ws})

\* ws_cell with a slip: a created cell takes the style of the cell above it
ws_cell_inherit(ws, row, column) ==
    IF <<row, column>> \in DOMAIN ws
    THEN ws
    ELSE [p \in DOMAIN ws \cup {<<row, column>>} |->
             IF p # <<row, column>> THEN ws[p]
             ELSE IF <<row - 1, column>> \in DOMAIN ws
                  THEN [value |-> None, style |-> ws[<<row - 1, column>>].style]
                  ELSE NewCell]

\* ws.cell(row, column): the cell there, created if the sheet has none
ws_cell(ws, row, column) ==
    IF <<row, column>> \in DOMAIN ws
    THEN ws
    ELSE [p \in DOMAIN ws \cup {<<row, column>>} |->
             IF p = <<row, column>> THEN NewCell ELSE ws[p]]

\* set_value with a slip: the cell is replaced by a new cell of that value
set_value_restyled(ws, row, column, value) ==
    [ws_cell(ws, row, column) EXCEPT
        ![<<row, column>>] = [value |-> value, style |-> DefaultStyle]]

\* ws.cell(row=excel_row, column=excel_col).value = value   (line 116)
set_value(ws, row, column, value) ==
    [ws_cell(ws, row, column) EXCEPT ![<<row, column>>].value = value]

\* ws.delete_rows(idx, amount): the cells below the deleted rows move up by
\* amount, then the rows left over at the bottom are removed
delete_rows(ws, idx, amount) ==
    LET last == max_row(ws)
        kept == {p \in DOMAIN ws : p[1] < idx}
        moved == {p \in DOMAIN ws : p[1] >= idx + amount}
        target == {<<p[1] - amount, p[2]>> : p \in moved}
        gutter == {r \in Max({last + 1 - amount, idx}) .. Min({idx + amount, last}) : TRUE}
        stay == {p \in DOMAIN ws : p[1] >= idx /\ p[1] < idx + amount
                                    /\ p \notin target /\ p[1] \notin gutter}
    IN  [p \in kept \cup target \cup stay |->
            IF p \in target THEN ws[<<p[1] + amount, p[2]>>] ELSE ws[p]]

----------------------------------------------------------------------------
(* The DataFrame: columns (names, in order) and col (one value sequence    *)
(* per column, all of one length)                                          *)

DataFrame(columns, col) == [columns |-> columns, col |-> col]

n_rows(df) == IF Len(df.col) = 0 THEN 0 ELSE Len(df.col[1])

\* values_tolist with a slip: the table column by column
values_tolist_by_column(df) == df.col

\* df.values.tolist(): the table row by row, each row in column order
values_tolist(df) ==
    [i \in 1 .. n_rows(df) |-> [j \in 1 .. Len(df.columns) |-> df.col[j][i]]]

\* df[name]: the column of that name
column_of(df, name) ==
    df.col[CHOOSE j \in 1 .. Len(df.columns) : df.columns[j] = name]

----------------------------------------------------------------------------
(* The uploaded file object: the sheet it holds and the stream position *)

\* the stream's length, one unit per cell
file_len(f) == Cardinality(DOMAIN f.content)

\* original_file_obj.seek(0)   (line 102)
seek(f, offset) == [f EXCEPT !.pos = offset]

\* load_workbook(original_file_obj) (line 105): the workbook is read from the
\* stream's position on; a stream that is not at its start gives no workbook
load_workbook(f) ==
    IF f.pos = 0 THEN [ok |-> TRUE, ws |-> f.content]
                 ELSE [ok |-> FALSE, ws |-> f.content]

RECURSIVE fill_row(_, _, _, _)
\* lines 114-116: the inner loop, from col_idx (0-based) on
fill_row(ws, excel_row, row_data, col_idx) ==
    IF col_idx >= Len(row_data) THEN ws
    ELSE LET excel_col == col_idx + 1
             value == row_data[col_idx + 1]
         IN  fill_row(set_value(ws, excel_row, excel_col, value),
                      excel_row, row_data, col_idx + 1)

RECURSIVE fill_rows(_, _, _)
\* lines 112-116: the outer loop, from row_idx (0-based) on
fill_rows(ws, data_rows, row_idx) ==
    IF row_idx >= Len(data_rows) THEN ws
    ELSE LET excel_row == row_idx + 2
             row_data == data_rows[row_idx + 1]
         IN  fill_rows(fill_row(ws, excel_row, row_data, 0), data_rows, row_idx + 1)

\* trim_rows with a slip: one row too few is deleted
trim_rows_short(ws, data_rows) ==
    LET current_max_row == max_row(ws)
        new_data_count == Len(data_rows) + 1
    IN  IF current_max_row > new_data_count
        THEN delete_rows(ws, new_data_count + 1, current_max_row - new_data_count - 1)
        ELSE ws

\* trim_rows with a slip: the deletion starts one row too early
trim_rows_early(ws, data_rows) ==
    LET current_max_row == max_row(ws)
        new_data_count == Len(data_rows) + 1
    IN  IF current_max_row > new_data_count
        THEN delete_rows(ws, new_data_count, current_max_row - new_data_count + 1)
        ELSE ws

\* lines 119-123: the rows below the new data are deleted
trim_rows(ws, data_rows) ==
    LET current_max_row == max_row(ws)
        new_data_count == Len(data_rows) + 1
    IN  IF current_max_row > new_data_count
        THEN delete_rows(ws, new_data_count + 1, current_max_row - new_data_count)
        ELSE ws

\* save_workbook with a slip: the workbook is saved into the uploaded file
save_workbook_in_place(ws, f) ==
    [raised |-> FALSE, buffer |-> ws,
     file |-> [content |-> ws, pos |-> Cardinality(DOMAIN ws)]]

\* lines 126-129: the workbook is saved into a new buffer; the file object it
\* was read from is left at its end
save_workbook(ws, f) ==
    [raised |-> FALSE, buffer |-> ws, file |-> seek(f, file_len(f))]

\* update_excel_formatting(df_new, original_file_obj): the buffer returned (or
\* the exception raised) and the file object as the call leaves it
update_excel_formatting(df_new, original_file_obj) ==
    LET f == seek(original_file_obj, 0)
        wb == load_workbook(f)
        data_rows == values_tolist(df_new)
    IN  IF ~wb.ok
        THEN [raised |-> TRUE, buffer |-> Null, file |-> f]
        ELSE save_workbook(trim_rows(fill_rows(wb.ws, data_rows, 0), data_rows), f)

----------------------------------------------------------------------------
(* pd.read_excel (line 147) *)

\* the value at a sheet position; an absent cell reads as missing
cell_value(ws, row, column) ==
    IF <<row, column>> \in DOMAIN ws THEN ws[<<row, column>>].value ELSE None

\* the last row that holds a value (trailing empty rows are not read)
last_data_row(ws) ==
    Max({1} \cup {p[1] : p \in {q \in DOMAIN ws : ws[q].value # None}})

\* the header cells of row 1, from column 1 on
header_width(ws) ==
    Max({0} \cup {p[2] : p \in {q \in DOMAIN ws : q[1] = 1 /\ ws[q].value # None}})

\* the table of the sheet: names from row 1, one row per sheet row below it
read_excel(f) ==
    LET ws == f.content
        n == last_data_row(ws) - 1
        w == header_width(ws)
    IN  DataFrame([j \in 1 .. w |-> cell_value(ws, 1, j).s],
                  [j \in 1 .. w |-> [i \in 1 .. n |-> cell_value(ws, i + 1, j)]])

----------------------------------------------------------------------------
(* The score columns (lines 150-161) *)

\* line 150; a header is a sequence of words
exclude_cols ==
    {<<"XuHao">>, <<"BanJi">>, <<"XueHao">>, <<"XingMing">>, <<"BeiZhu">>,
     <<"ID">>, <<"No">>}

\* line 153: any(x in str(col) for x in ['学号', '姓名', '班级'])
has_excluded_word(col) ==
    \E i \in 1 .. Len(col) : col[i] \in {"XueHao", "XingMing", "BanJi"}

excluded(col) == col \in exclude_cols \/ has_excluded_word(col)

\* the texts of the model that parse as a number, and the number each gives
numeric_text == [s \in {<<"59">>, <<"95">>} |-> IF s = <<"59">> THEN 59 ELSE 95]

\* the conversion of one value to a number: [ok, n]
parse_number(v) ==
    IF v.k = "num" THEN [ok |-> TRUE, n |-> v.n]
    ELSE IF v.k = "str" /\ v.s \in DOMAIN numeric_text
         THEN [ok |-> TRUE, n |-> numeric_text[v.s]]
         ELSE [ok |-> FALSE, n |-> 0]

\* Series.dropna()
dropna(series) == SelectSeq(series, LAMBDA v : v # None)

\* pd.to_numeric(sample, errors='raise') returns (TRUE) or raises (FALSE)
to_numeric_raise(sample) ==
    \A i \in 1 .. Len(sample) : parse_number(sample[i]).ok

\* pd.to_numeric(series, errors='coerce'): what does not parse becomes missing
to_numeric_coerce(series) ==
    [i \in 1 .. Len(series) |->
        IF series[i] # None /\ parse_number(series[i]).ok
        THEN Num(parse_number(series[i]).n) ELSE None]

\* is_score_col with a slip: the missing values are not dropped
is_score_col_strict(df, col) ==
    /\ ~excluded(col)
    /\ LET sample == column_of(df, col)
       IN  Len(sample) > 0 /\ to_numeric_raise(sample)

\* lines 153-161: whether the loop appends col to score_cols
is_score_col(df, col) ==
    /\ ~excluded(col)
    /\ LET sample == dropna(column_of(df, col))
       IN  Len(sample) > 0 /\ to_numeric_raise(sample)

\* lines 151-161
select_score_cols(df) == SelectSeq(df.columns, LAMBDA col : is_score_col(df, col))

----------------------------------------------------------------------------
(* The chart and the metrics *)

\* line 66: the margin of the x-range
XMargin == 5
\* line 67: the width under which the x-range is widened, and by how much
XNarrow == 10
XExtra == 5
\* line 62
Bins == 15
\* lines 221 and 298
FailLine == 60
\* lines 224 and 301
ExcLine == 90

\* the numbers of a series, missing values skipped (as min, max and mean do)
present(data) == {i \in 1 .. Len(data) : data[i] # None}

RECURSIVE series_sum(_, _)
series_sum(data, i) ==
    IF i > Len(data) THEN 0
    ELSE (IF data[i] # None THEN data[i].n ELSE 0) + series_sum(data, i + 1)

\* lines 66-68: the x-range of the chart
x_range(data) ==
    LET xmin == Min({data[i].n : i \in present(data)}) - XMargin
        xmax == Max({data[i].n : i \in present(data)}) + XMargin
    IN  IF xmax - xmin < XNarrow
        THEN <<xmin - XExtra, xmax + XExtra>>
        ELSE <<xmin, xmax>>

\* draw_chart(data): the figure's x-range and bins, and mu as the quotient
\* sum / count (the standard deviation is not modelled)
draw_chart(data) ==
    [xlim |-> x_range(data), bins |-> Bins,
     mu |-> [num |-> series_sum(data, 1), den |-> Cardinality(present(data))]]

\* count_below with a slip: the line itself counts
count_below_incl(data, line) ==
    Cardinality({i \in present(data) : data[i].n <= line})

\* (data < line).sum(): a missing value compares false
count_below(data, line) ==
    Cardinality({i \in present(data) : data[i].n < line})

\* (data > line).sum()
count_above(data, line) ==
    Cardinality({i \in present(data) : data[i].n > line})

\* lines 206-225 and 284-302: the chart and the metrics of a series; a rate is
\* the quotient count / len(data)
metrics(data) ==
    LET fig == draw_chart(data)
        fail_count == count_below(data, FailLine)
        exc_count == count_above(data, ExcLine)
    IN  [kind |-> "chart", xlim |-> fig.xlim, bins |-> fig.bins, mu |-> fig.mu,
         valid |-> Len(data),
         fail_count |-> fail_count,
         fail_rate |-> [num |-> fail_count, den |-> Len(data)],
         exc_count |-> exc_count,
         exc_rate |-> [num |-> exc_count, den |-> Len(data)],
         data |-> data]

\* line 203: clean_data
clean(df, col) == dropna(to_numeric_coerce(column_of(df, col)))

\* chart_branch with a slip: one valid value is enough
chart_branch_any(df, col) ==
    LET clean_data == clean(df, col)
    IN  IF Len(clean_data) > 0 THEN metrics(clean_data)
        ELSE [kind |-> "warning"]

\* lines 203-247: what col2 shows
chart_branch(df, col) ==
    LET clean_data == clean(df, col)
    IN  IF Len(clean_data) > 1 THEN metrics(clean_data)
        ELSE [kind |-> "warning"]

----------------------------------------------------------------------------
(* The sheets a user uploads *)

\* every cell of an uploaded sheet has a style of its own
style_at(row, column) == <<row, column>>

\* the header of a column: a student number first, then score columns
header_at(column) ==
    IF column = 1 THEN <<"XueHao">> ELSE <<"ChengJi", ToString(column)>>

\* a sheet of n_cols columns and n_data data rows, the data a number of its
\* own per cell; with tail, one formatted row without values below the data
plain_sheet(n_cols, n_data, tail) ==
    LET last == n_data + 1 + (IF tail THEN 1 ELSE 0)
    IN  [p \in (1 .. last) \X (1 .. n_cols) |->
            [value |-> IF p[1] = 1 THEN Str(header_at(p[2]))
                       ELSE IF p[1] <= n_data + 1 THEN Num(10 * p[1] + p[2])
                       ELSE None,
             style |-> style_at(p[1], p[2])]]

Sheets ==
    {plain_sheet(c, n, t) : c \in 1 .. MaxCols, n \in 0 .. MaxDataRows, t \in BOOLEAN}

\* what the user types into a cell of the data editor ("QueKao": absent, a text
\* that is no number)
EditValues == {None, Num(59), Str(<<"QueKao">>)}

----------------------------------------------------------------------------
(* The page *)

Init ==
    /\ pc = "welcome"
    /\ uploaded_file = NoFile
    /\ editor = Fresh
    /\ selected = Fresh
    /\ n_edits = 0
    /\ df_original = Null
    /\ score_cols = <<>>
    /\ target_col = Null
    /\ df_edited = Null
    /\ final_buffer = Null
    /\ chart = Null
    /\ df_demo = Null
    /\ message = ""
    /\ orig = Null
    /\ first = Null

\* line 140: the user uploads a file; the script runs
Upload(sheet) ==
    /\ pc = "welcome"
    /\ uploaded_file' = [content |-> sheet, pos |-> 0]
    /\ orig' = [k |-> "sheet", ws |-> sheet]
    /\ pc' = "read"
    /\ UNCHANGED <<editor, selected, n_edits, df_original, score_cols, target_col,
                   df_edited, final_buffer, chart, df_demo, message, first>>

\* lines 147-164: the file is read and the score columns are chosen; pandas
\* rewinds the stream itself, and may leave it at its start or at its end
ReadExcel ==
    /\ pc = "read"
    /\ df_original' = read_excel(uploaded_file)
    /\ \E p \in {0, file_len(uploaded_file)} : uploaded_file' = seek(uploaded_file, p)
    /\ score_cols' = select_score_cols(df_original')
    /\ IF score_cols' = <<>>
       THEN message' = "no_numeric_column" /\ pc' = "done"
       ELSE message' = message /\ pc' = "editor"
    /\ UNCHANGED <<editor, selected, n_edits, target_col, df_edited, final_buffer,
                   chart, df_demo, orig, first>>

\* lines 166-185: the select box (the last score column unless the user chose
\* one) and the data editor (the table as the user has edited it)
DataEditor ==
    /\ pc = "editor"
    /\ target_col' = IF selected # Fresh THEN selected
                     ELSE [k |-> "col", name |-> score_cols[Len(score_cols)]]
    /\ df_edited' = IF editor # Fresh THEN editor ELSE df_original
    /\ pc' = "export"
    /\ UNCHANGED <<uploaded_file, editor, selected, n_edits, df_original, score_cols,
                   final_buffer, chart, df_demo, message, orig, first>>

\* lines 187-199 (and 249-250 when the export raises)
Export ==
    /\ pc = "export"
    /\ LET r == update_excel_formatting(df_edited, uploaded_file)
       IN  /\ uploaded_file' = r.file
           /\ IF r.raised
              THEN /\ message' = "parse_error"
                   /\ pc' = "done"
                   /\ UNCHANGED <<final_buffer, first>>
              ELSE /\ final_buffer' = [k |-> "xlsx", ws |-> r.buffer]
                   /\ first' = IF first = Null
                               THEN [k |-> "export", table |-> df_edited, ws |-> r.buffer]
                               ELSE first
                   /\ pc' = "chart"
                   /\ UNCHANGED message
    /\ UNCHANGED <<editor, selected, n_edits, df_original, score_cols, target_col,
                   df_edited, chart, df_demo, orig>>

\* lines 201-247
Chart ==
    /\ pc = "chart"
    /\ chart' = chart_branch(df_edited, target_col.name)
    /\ pc' = "done"
    /\ UNCHANGED <<uploaded_file, editor, selected, n_edits, df_original, score_cols,
                   target_col, df_edited, final_buffer, df_demo, message, orig, first>>

\* a user interaction makes Streamlit run the script again from its top
Rerun ==
    /\ pc = "done"
    /\ message = ""
    /\ n_edits < MaxEdits
    /\ n_edits' = n_edits + 1
    /\ pc' = "read"
    /\ df_original' = Null
    /\ score_cols' = <<>>
    /\ target_col' = Null
    /\ df_edited' = Null
    /\ final_buffer' = Null
    /\ chart' = Null
    /\ UNCHANGED <<uploaded_file, df_demo, message, orig, first>>

\* the user types value into row i, column j of the data editor
EditCell(i, j, value) ==
    /\ Rerun
    /\ editor' = [df_edited EXCEPT !.col[j][i] = value]
    /\ UNCHANGED selected

\* the user adds a row to the data editor (num_rows="dynamic")
AddRow ==
    /\ Rerun
    /\ editor' = [df_edited EXCEPT
                     !.col = [j \in 1 .. Len(df_edited.col) |->
                                 Append(df_edited.col[j], None)]]
    /\ UNCHANGED selected

\* the user deletes row i of the data editor
DeleteRow(i) ==
    /\ Rerun
    /\ editor' = [df_edited EXCEPT
                     !.col = [j \in 1 .. Len(df_edited.col) |->
                                 SubSeq(df_edited.col[j], 1, i - 1)
                                 \o SubSeq(df_edited.col[j], i + 1, Len(df_edited.col[j]))]]
    /\ UNCHANGED selected

\* the user chooses another score column in the select box
SelectTarget(j) ==
    /\ Rerun
    /\ score_cols[j] # target_col.name
    /\ selected' = [k |-> "col", name |-> score_cols[j]]
    /\ UNCHANGED editor

\* df.iloc[:, -1]: the last column
last_column(df) == df.col[Len(df.col)]

\* lines 257-266: the demo table as the data editor returns it, its last
\* column the scores (the table's 50 rows are cut to the length of scores)
demo_table(scores) ==
    DataFrame(<<<<"XingMing">>, <<"PingShi", "ChengJi">>, <<"QiMo", "KaoHe">>>>,
              <<[i \in 1 .. Len(scores) |-> Str(<<"XueSheng", ToString(i)>>)],
                [i \in 1 .. Len(scores) |-> Num(60)],
                scores>>)

\* lines 256-318: the user asks for the demo data
Demo(scores) ==
    /\ pc = "welcome"
    /\ df_demo' = demo_table(scores)
    /\ chart' = metrics(last_column(df_demo'))
    /\ pc' = "demo"
    /\ UNCHANGED <<uploaded_file, editor, selected, n_edits, df_original, score_cols,
                   target_col, df_edited, final_buffer, message, orig, first>>

\* the scores of a demo table: numbers, and cells the user has emptied
DemoValues == {None, Num(59), Num(60), Num(90), Num(91)}

RECURSIVE SeqsUpTo(_, _)
\* the sequences over S of length at most n
SeqsUpTo(S, n) ==
    IF n = 0 THEN {<<>>}
    ELSE LET shorter == SeqsUpTo(S, n - 1)
         IN  shorter \cup {Append(q, x) : q \in shorter, x \in S}

DemoScores == {q \in SeqsUpTo(DemoValues, MaxSample) : present(q) # {}}

Next ==
    \/ pc = "welcome" /\ \E sheet \in Sheets : Upload(sheet)
    \/ ReadExcel
    \/ DataEditor
    \/ Export
    \/ Chart
    \/ /\ pc = "done" /\ message = ""
       /\ \E i \in 1 .. n_rows(df_edited), j \in 1 .. Len(df_edited.columns),
             value \in EditValues : EditCell(i, j, value)
    \/ AddRow
    \/ /\ pc = "done" /\ message = ""
       /\ \E i \in 1 .. n_rows(df_edited) : DeleteRow(i)
    \/ \E j \in 1 .. Len(score_cols) : SelectTarget(j)
    \/ pc = "welcome" /\ \E scores \in DemoScores : Demo(scores)

Spec == Init /\ [][Next]_vars

----------------------------------------------------------------------------
(* The score columns of uploaded sheets of every kind of header and value *)

ClassifyHeaders ==
    {<<"ChengJi">>, <<"No">>, <<"XingMing">>, <<"BanJi", "ChengJi">>,
     <<"BeiZhu", "ChengJi">>}

ClassifyValues == {None, Num(60), Str(<<"QueKao">>), Str(<<"95">>)}

\* a sheet of a student-number column and one column of the given header and
\* values
classify_sheet(header, values) ==
    [p \in (1 .. Len(values) + 1) \X (1 .. 2) |->
        [value |-> IF p[2] = 1
                   THEN (IF p[1] = 1 THEN Str(header_at(1)) ELSE Num(10 * p[1] + 1))
                   ELSE (IF p[1] = 1 THEN Str(header) ELSE values[p[1] - 1]),
         style |-> style_at(p[1], p[2])]]

ClassifySheets ==
    {classify_sheet(h, v) : h \in ClassifyHeaders,
                            v \in SeqsUpTo(ClassifyValues, MaxDataRows)}

NextClassify ==
    \/ pc = "welcome" /\ \E sheet \in ClassifySheets : Upload(sheet)
    \/ ReadExcel

SpecClassify == Init /\ [][NextClassify]_vars

----------------------------------------------------------------------------
(* The chart of edited tables of every kind of score *)

StatValues ==
    {None, Num(59), Num(60), Num(90), Num(91), Str(<<"QueKao">>), Str(<<"95">>)}

\* the page before its chart step, the user having edited the score column of
\* a sheet of one data row into scores
before_chart(scores) ==
    LET sheet == plain_sheet(2, 1, FALSE)
        file == [content |-> sheet, pos |-> 0]
        table == read_excel(file)
        edited == [table EXCEPT
                      !.col = <<[i \in 1 .. Len(scores) |-> Num(10 * (i + 1) + 1)],
                                scores>>]
    IN  /\ pc = "chart"
        /\ uploaded_file = update_excel_formatting(edited, file).file
        /\ editor = edited
        /\ selected = Fresh
        /\ n_edits = MaxEdits
        /\ df_original = table
        /\ score_cols = select_score_cols(table)
        /\ target_col = [k |-> "col", name |-> score_cols[Len(score_cols)]]
        /\ df_edited = edited
        /\ final_buffer = [k |-> "xlsx", ws |-> update_excel_formatting(edited, file).buffer]
        /\ chart = Null
        /\ df_demo = Null
        /\ message = ""
        /\ orig = [k |-> "sheet", ws |-> sheet]
        /\ first = [k |-> "export", table |-> table,
                    ws |-> update_excel_formatting(table, file).buffer]

InitStats ==
    \/ Init
    \/ \E scores \in SeqsUpTo(StatValues, MaxSample) : before_chart(scores)

NextStats ==
    \/ Chart
    \/ pc = "welcome" /\ \E scores \in DemoScores : Demo(scores)

SpecStats == InitStats /\ [][NextStats]_vars

----------------------------------------------------------------------------
(* The properties *)

\* the export of this script run has been made
Exported == pc \in {"chart", "done"} /\ final_buffer # Null

\* the edited table T: N rows, C columns, T.rows[i][j] (0-based) at TCell(i+1, j+1)
TRows == n_rows(df_edited)
TCols == Len(df_edited.columns)
TCell(i, j) == df_edited.col[j][i]

\* the original sheet D and the output sheet
OrigSheet == orig.ws
OutSheet == final_buffer.ws
RowsOf(ws) == {p[1] : p \in DOMAIN ws}
OldMaxRow == Max(RowsOf(OrigSheet))

\* the cell of the edited table written at a sheet position
InTable(p) == p[1] \in 2 .. TRows + 1 /\ p[2] \in 1 .. TCols

\* the output read back as a table is T, up to empty rows at T's end
ReadBackIsTable ==
    LET back == read_excel([content |-> OutSheet, pos |-> 0])
        n == n_rows(back)
    IN  /\ back.columns = df_edited.columns
        /\ n <= TRows
        /\ \A i \in 1 .. TRows, j \in 1 .. TCols :
              IF i <= n THEN back.col[j][i] = TCell(i, j)
                        ELSE TCell(i, j) = None

\* C1: value fidelity. When the original sheet has at least as many data rows
\* as the edited table, the output holds T.rows[i][j] at row i+2, column j+1,
\* for every row and column of the table, in that order, and holds no row
\* below them; read back as a table it gives the table.
C1_ValueFidelity ==
    Exported =>
        LET out == OutSheet
            n == TRows
        IN  OldMaxRow - 1 >= n =>
               /\ \A i \in 1 .. n, j \in 1 .. TCols :
                     /\ <<i + 1, j>> \in DOMAIN out
                     /\ out[<<i + 1, j>>].value = TCell(i, j)
               /\ \A p \in DOMAIN out : p[1] <= n + 1
               /\ ReadBackIsTable

\* an edited table of two columns or more, shorter than the original's data,
\* with an edited value in it, has been exported
C1_Witness ==
    /\ Exported
    /\ TCols >= 2 /\ TRows >= 1 /\ OldMaxRow - 1 > TRows
    /\ \E i \in 1 .. TRows, j \in 1 .. TCols :
          TCell(i, j) # OrigSheet[<<i + 1, j>>].value /\ TCell(i, j) # None

\* C2: style preservation. Every cell of a data row that the edited table and
\* the original sheet both have keeps, in the output, the style reference it
\* has in the original, whatever value was written into it.
C2_StylePreserved ==
    Exported =>
        LET out == OutSheet
            surviving == Min({TRows, OldMaxRow - 1})
        IN  \A p \in DOMAIN OrigSheet :
                (p[1] >= 2 /\ p[1] - 1 <= surviving) =>
                    /\ p \in DOMAIN out
                    /\ out[p].style = OrigSheet[p].style

\* a cell has been given another value and has kept its style
C2_Witness ==
    /\ Exported
    /\ \E p \in DOMAIN OrigSheet :
          /\ InTable(p) /\ p \in DOMAIN OutSheet
          /\ OutSheet[p].value # OrigSheet[p].value
          /\ OutSheet[p].style = OrigSheet[p].style
          /\ OutSheet[p].style # DefaultStyle

\* C3: shrink trims rows. When the original's last row is below row N+1, the
\* output has no cell below row N+1, its last row is N+1, and every cell of
\* the original at or above row N+1 is where it was, with its style and, where
\* the table did not write, its value.  N = 0 included.
C3_ShrinkTrims ==
    Exported =>
        LET out == OutSheet
            n == TRows
            c == TCols
        IN  OldMaxRow > n + 1 =>
               /\ \A p \in DOMAIN out : p[1] <= n + 1
               /\ \E p \in DOMAIN out : p[1] = n + 1
               /\ \A p \in DOMAIN OrigSheet :
                     p[1] <= n + 1 =>
                        /\ p \in DOMAIN out
                        /\ out[p].style = OrigSheet[p].style
                        /\ out[p].value =
                              IF p[1] >= 2 /\ p[2] <= c THEN TCell(p[1] - 1, p[2])
                                                        ELSE OrigSheet[p].value

\* an empty table has been exported over a sheet of two rows or more below
\* the header
C3_Witness ==
    Exported /\ TRows = 0 /\ OldMaxRow >= 3 /\ RowsOf(OutSheet) = {1}

\* C4: idempotence and call independence. Whatever was exported before and
\* wherever earlier reads left the stream, the uploaded file holds the sheet
\* the user uploaded, and an export of the table of the upload's first export
\* gives the cells the first export gave.
C4_Idempotent ==
    /\ uploaded_file # NoFile => uploaded_file.content = OrigSheet
    /\ (Exported /\ df_edited = first.table) => OutSheet = first.ws

\* the table of the first export has been exported again after two
\* interactions, the data editor having been used in between
C4_Witness ==
    /\ Exported
    /\ n_edits >= 2 /\ editor # Fresh
    /\ df_edited = first.table
    /\ OutSheet = first.ws
    /\ OutSheet # OrigSheet

\* C7: the header row is untouched. Row 1 of the output has the cells of row
\* 1 of the original, each with its value and its style, for every edited
\* table.
C7_HeaderUntouched ==
    Exported =>
        LET out == OutSheet
        IN  /\ \A p \in DOMAIN out : p[1] = 1 => p \in DOMAIN OrigSheet
            /\ \A p \in DOMAIN OrigSheet :
                  p[1] = 1 => (p \in DOMAIN out /\ out[p] = OrigSheet[p])

\* the user has deleted every row and the empty table has been exported
C7_Witness ==
    Exported /\ editor # Fresh /\ TRows = 0 /\ OldMaxRow >= 2

\* C8: grow. When the edited table reaches below the original's last row, no
\* cell of the original is deleted and each keeps its style; the rows below
\* the original's last row hold the edited values with the default style; the
\* output's last row is N+1.
C8_Grow ==
    Exported =>
        LET out == OutSheet
            n == TRows
            old == OldMaxRow
        IN  n + 1 > old =>
               /\ \A p \in DOMAIN OrigSheet :
                     p \in DOMAIN out /\ out[p].style = OrigSheet[p].style
               /\ \A r \in old + 1 .. n + 1, j \in 1 .. TCols :
                     /\ <<r, j>> \in DOMAIN out
                     /\ out[<<r, j>>].value = TCell(r - 1, j)
                     /\ out[<<r, j>>].style = DefaultStyle
               /\ \A p \in DOMAIN out : p[1] <= n + 1
               /\ \E p \in DOMAIN out : p[1] = n + 1

\* a table that reaches below the original's last row has been exported, a
\* value typed into its new row
C8_Witness ==
    /\ Exported
    /\ TRows + 1 >= OldMaxRow + 1 /\ OldMaxRow >= 2
    /\ \E j \in 1 .. TCols : TCell(TRows, j) # None

\* the values of the selected column that count as numbers
ValidRows ==
    {i \in 1 .. TRows :
        LET v == column_of(df_edited, target_col.name)[i]
        IN  v.k = "num" \/ (v.k = "str" /\ v.s \in {<<"59">>, <<"95">>})}

\* C9: insufficient data. A script run whose selected column has fewer than 2
\* valid numbers shows the warning and no chart or metric, and has made and
\* offered the export; the export is made whatever the number of valid values.
C9_InsufficientData ==
    (pc = "done" /\ df_edited # Null) =>
        /\ final_buffer # Null
        /\ Cardinality(ValidRows) < 2 => chart = [kind |-> "warning"]
        /\ Cardinality(ValidRows) >= 2 => chart.kind = "chart"

\* a run over a column of one valid number and one text has ended
C9_Witness ==
    /\ pc = "done" /\ df_edited # Null
    /\ TRows = 2 /\ Cardinality(ValidRows) = 1
    /\ chart = [kind |-> "warning"]
    /\ final_buffer # Null


\* a value that can be coerced to a number, and the number
Coercible(v) == v.k = "num" \/ (v.k = "str" /\ v.s \in {<<"59">>, <<"95">>})
Score(v) == IF v.k = "num" THEN v.n ELSE IF v.s = <<"59">> THEN 59 ELSE 95

InScoreCols(col) == \E k \in 1 .. Len(score_cols) : score_cols[k] = col

AllCoercible(series) ==
    \A i \in 1 .. Len(series) : series[i] = None \/ Coercible(series[i])

SomePresent(series) == \E i \in 1 .. Len(series) : series[i] # None

\* C5 as stated: a column whose header is not excluded is a score column if
\* and only if every non-missing value of it can be coerced to a number.
C5_AsStated ==
    df_original # Null =>
        \A j \in 1 .. Len(df_original.columns) :
            ~excluded(df_original.columns[j]) =>
                (InScoreCols(df_original.columns[j]) <=> AllCoercible(df_original.col[j]))

\* C5 as amended: a column whose header is not excluded is a score column if
\* and only if it has a non-missing value and every non-missing value of it
\* can be coerced to a number; the sample of a score column is its non-missing
\* values, in order, as numbers.
C5_NumericColumns ==
    df_original # Null =>
        \A j \in 1 .. Len(df_original.columns) :
            LET col == df_original.columns[j]
                series == df_original.col[j]
                kept == SelectSeq(series, LAMBDA v : v # None)
            IN  ~excluded(col) =>
                   /\ InScoreCols(col) <=> (SomePresent(series) /\ AllCoercible(series))
                   /\ InScoreCols(col) =>
                         clean(df_original, col) = [i \in 1 .. Len(kept) |-> Num(Score(kept[i]))]

\* a column of a number, a missing value and a numeric text is a score column
C5_Witness ==
    /\ df_original # Null
    /\ \E j \in 1 .. Len(df_original.columns) :
          /\ InScoreCols(df_original.columns[j])
          /\ \E i \in 1 .. Len(df_original.col[j]) : df_original.col[j][i] = None
          /\ \E i \in 1 .. Len(df_original.col[j]) : df_original.col[j][i] = Num(60)

\* the failing and excellent counts, and the rates, of a series of n values
ThresholdsOf(series, shown, n) ==
    LET valid == {i \in 1 .. Len(series) : series[i] # None /\ Coercible(series[i])}
        failing == Cardinality({i \in valid : Score(series[i]) < 60})
        excellent == Cardinality({i \in valid : Score(series[i]) > 90})
    IN  /\ shown.fail_count = failing
        /\ shown.exc_count = excellent
        /\ shown.fail_rate = [num |-> failing, den |-> n]
        /\ shown.exc_rate = [num |-> excellent, den |-> n]

NumValid(series) ==
    Cardinality({i \in 1 .. Len(series) : series[i] # None /\ Coercible(series[i])})

\* C6: threshold counts. Where the metrics are shown, the failing count is the
\* number of values strictly below 60, the excellent count the number strictly
\* above 90, and each rate its count over the size of the sample (at least 2
\* valid values on the page of an upload; the last column on the demo page).
C6_Thresholds ==
    /\ (pc = "done" /\ chart # Null /\ chart.kind = "chart") =>
          LET series == column_of(df_edited, target_col.name)
          IN  NumValid(series) >= 2 /\ ThresholdsOf(series, chart, NumValid(series))
    /\ pc = "demo" =>
          ThresholdsOf(last_column(df_demo), chart, Len(last_column(df_demo)))

\* the metrics of the sample 59, 60, 90, 91 are shown: one failing, one
\* excellent, a quarter each
C6_Witness ==
    /\ pc = "done" /\ chart # Null /\ chart.kind = "chart"
    /\ column_of(df_edited, target_col.name) = <<Num(59), Num(60), Num(90), Num(91)>>
    /\ chart.fail_count = 1 /\ chart.exc_count = 1
    /\ chart.fail_rate = [num |-> 1, den |-> 4]

\* C10: the chart's x-range is [min-5, max+5], and [min-10, max+10] whenever
\* max - min is under 10.
C10_XRange ==
    (pc \in {"done", "demo"} /\ chart # Null /\ chart.kind = "chart") =>
        LET nums == {chart.data[i].n : i \in present(chart.data)}
            lo == Min(nums)
            hi == Max(nums)
        IN  chart.xlim = IF hi - lo < 10 THEN <<lo - 10, hi + 10>>
                                         ELSE <<lo - 5, hi + 5>>

====
